---- MODULE Spec2Model ----
(***************************************************************************)
(* A model of four parts of arrow2:                                        *)
(*   - io/ipc/read/array/list.rs : read_list and skip_list, which consume  *)
(*     the shared field-node and buffer queues of an IPC message;          *)
(*   - array/struct_/mod.rs      : StructArray and its constructors,       *)
(*     slice and with_validity;                                            *)
(*   - compute/comparison/mod.rs : the comparison operators over arrays    *)
(*     and scalars and their can_* predicates;                             *)
(*   - the helpers they call that live in other files of the crate         *)
(*     (read_validity, read_buffer, the read/skip dispatchers,             *)
(*     ListArray::try_new), modelled from the design document.             *)
(***************************************************************************)
EXTENDS Integers, Sequences, FiniteSets, TLC

VARIABLES
    data_type,      \* IPC: the logical type of the column being decoded
    version,        \* IPC: the metadata version of the message
    msg,            \* IPC: the message's queues as received [nodes, bufs]
    field_nodes,    \* IPC: the reader's field-node queue (VecDeque<Node>)
    buffers,        \* IPC: the reader's buffer queue (VecDeque<IpcBuffer>)
    rd,             \* IPC: what read_list / read_struct returned
    sk_field_nodes, \* IPC: the skip walker's field-node queue
    sk_buffers,     \* IPC: the skip walker's buffer queue
    sk,             \* IPC: what skip_list returned
    s_self,         \* StructArray: the receiver of the last method call
    s_ret,          \* StructArray: the array the last call returned
    s_call,         \* StructArray: the last call, its arguments and outcome
    cmp             \* comparison: the last operator call and its outcome

vars == <<data_type, version, msg, field_nodes, buffers, rd,
          sk_field_nodes, sk_buffers, sk, s_self, s_ret, s_call, cmp>>

ipc_vars == <<data_type, version, msg, field_nodes, buffers, rd,
              sk_field_nodes, sk_buffers, sk>>

struct_vars == <<s_self, s_ret, s_call>>

cmp_vars == <<cmp>>

(***************************************************************************)
(* Bounds of the model.                                                    *)
(***************************************************************************)
\* largest length a field node of an IPC message declares
MaxLen == 1
\* largest stride of the values stored in a buffer (0, step, 2*step, ...)
MaxStep == 1
\* largest number of fields of a struct data type handed to a constructor
MaxFields == 2
\* largest length of a child array or bitmap handed to a StructArray call
MaxRows == 2
\* deepest nesting of Extension / Dictionary wrappers around a compared type
MaxWrap == 1

SeqsUpTo(S, n) == UNION {[1..k -> S] : k \in 0..n}

(***************************************************************************)
(* Data types (crate::datatypes::DataType), as far as the code looks at    *)
(* them.                                                                   *)
(***************************************************************************)
Null == [kind |-> "Null"]
Int32 == [kind |-> "Int32"]
Boolean == [kind |-> "Boolean"]
List(child) == [kind |-> "List", child |-> child]
Field(name, dt) == [name |-> name, data_type |-> dt]
Struct(fields) == [kind |-> "Struct", fields |-> fields]
Extension(inner) == [kind |-> "Extension", inner |-> inner]

\* DataType::to_logical_type: strips extension wrappers
RECURSIVE to_logical_type(_)
to_logical_type(dt) ==
    IF dt.kind = "Extension" THEN to_logical_type(dt.inner) ELSE dt

(***************************************************************************)
(* Option<T> is a sequence of length 0 (None) or 1 (Some).                 *)
(***************************************************************************)
None == <<>>
Some(x) == <<x>>
IsSome(o) == Len(o) = 1
Unwrap(o) == o[1]

\* Bitmap: only its length (and the offset of a slice) is looked at
Bitmap(n) == [offset |-> 0, length |-> n]

(***************************************************************************)
(* Arrays.  A leaf array (null, primitive, boolean) is                     *)
(* [data_type, offset, length, validity]; a ListArray is                   *)
(* [data_type, offsets, values, validity]; a StructArray is                *)
(* [data_type, values, validity].                                          *)
(***************************************************************************)
LeafArray(dt, n, validity) ==
    [data_type |-> dt, offset |-> 0, length |-> n, validity |-> validity]

IsStructArray(a) == to_logical_type(a.data_type).kind = "Struct"
IsListArray(a) == to_logical_type(a.data_type).kind = "List"

\* Array::len
RECURSIVE ArrLen(_)
ArrLen(a) ==
    IF IsStructArray(a) THEN ArrLen(a.values[1])
    ELSE IF IsListArray(a) THEN Len(a.offsets) - 1
    ELSE a.length

(***************************************************************************)
(* Results of the fallible operations.  The queues are passed by mutable   *)
(* reference, so a result carries what is left of them, also on failure.   *)
(***************************************************************************)
Ok(val, nodes, bufs) ==
    [ok |-> TRUE, val |-> val, err |-> "", nodes |-> nodes, bufs |-> bufs]
Err(e, nodes, bufs) ==
    [ok |-> FALSE, val |-> None, err |-> e, nodes |-> nodes, bufs |-> bufs]

\* the errors of an empty queue
CorruptionErrors == {"MissingFieldNode", "MissingBuffer"}

(***************************************************************************)
(* read_basic.rs (not among the listed sources): modelled from the design  *)
(* document, sections 4.1 to 4.3.                                          *)
(***************************************************************************)
\* the elements a buffer descriptor addresses: 0, step, 2*step, ...
BufferValues(d, n) == [i \in 1..n |-> (i - 1) * d.step]

\* read_buffer: pops one descriptor, then reads `length` elements from it
read_buffer(bufs, length) ==
    IF bufs = <<>> THEN Err("MissingBuffer", <<>>, bufs)
    ELSE IF Head(bufs).length < length THEN Err("ReadFailed", <<>>, Tail(bufs))
    ELSE Ok(BufferValues(Head(bufs), length), <<>>, Tail(bufs))

\* read_validity: always consumes the validity slot; decodes it only when
\* the node declares nulls
read_validity(bufs, field_node) ==
    IF bufs = <<>> THEN Err("MissingBuffer", <<>>, bufs)
    ELSE IF field_node.null_count > 0
    THEN IF Head(bufs).length < field_node.length
         THEN Err("ReadFailed", <<>>, Tail(bufs))
         ELSE Ok(Some(Bitmap(field_node.length)), <<>>, Tail(bufs))
    ELSE Ok(None, <<>>, Tail(bufs))

(***************************************************************************)
(* ListArray::try_new (array/list/mod.rs, not among the listed sources):   *)
(* the invariants 1 to 3 of the design document's data model.              *)
(***************************************************************************)
NonDecreasing(s) == \A i \in 1..(Len(s) - 1) : s[i] <= s[i + 1]

ListArray_try_new_error(dt, offsets, values, validity) ==
    IF Len(offsets) = 0 \/ ~NonDecreasing(offsets)
       \/ offsets[Len(offsets)] # ArrLen(values)
    THEN "InvalidOffsets"
    ELSE IF IsSome(validity) /\ Unwrap(validity).length # Len(offsets) - 1
    THEN "InvalidValidity"
    ELSE IF to_logical_type(dt).child # values.data_type
    THEN "InvalidChildType"
    ELSE ""

ListArray_try_new(dt, offsets, values, validity, nodes, bufs) ==
    LET e == ListArray_try_new_error(dt, offsets, values, validity) IN
    IF e # "" THEN Err(e, nodes, bufs)
    ELSE Ok([data_type |-> dt, offsets |-> offsets, values |-> values,
             validity |-> validity], nodes, bufs)

\* ListArray::get_child_type
get_child_type(dt) == to_logical_type(dt).child

(***************************************************************************)
(* StructArray (array/struct_/mod.rs).                                     *)
(***************************************************************************)
\* StructArray::try_get_fields: Some(fields) of a struct type, else None
try_get_fields(dt) ==
    IF to_logical_type(dt).kind = "Struct"
    THEN Some(to_logical_type(dt).fields)
    ELSE None

\* try_new's checks without the comparison of the validity's length
try_new_error_no_validity_check(dt, values, validity) ==
    IF ~IsSome(try_get_fields(dt)) THEN "NotStruct"
    ELSE LET fields == Unwrap(try_get_fields(dt)) IN
    IF Len(fields) = 0 THEN "NoFields"
    ELSE IF Len(fields) # Len(values) THEN "FieldCount"
    ELSE IF \E i \in 1..Len(fields) : fields[i].data_type # values[i].data_type
    THEN "ChildType"
    ELSE IF \E i \in 1..Len(values) : ArrLen(values[i]) # ArrLen(values[1])
    THEN "ChildLength"
    ELSE ""

\* the checks of StructArray::try_new, in the order of the code: the error
\* it returns, or "" when it accepts
try_new_error(dt, values, validity) ==
    IF ~IsSome(try_get_fields(dt)) THEN "NotStruct"
    ELSE LET fields == Unwrap(try_get_fields(dt)) IN
    IF Len(fields) = 0 THEN "NoFields"
    ELSE IF Len(fields) # Len(values) THEN "FieldCount"
    ELSE IF \E i \in 1..Len(fields) : fields[i].data_type # values[i].data_type
    THEN "ChildType"
    ELSE IF \E i \in 1..Len(values) : ArrLen(values[i]) # ArrLen(values[1])
    THEN "ChildLength"
    ELSE IF IsSome(validity) /\ Unwrap(validity).length # ArrLen(values[1])
    THEN "ValidityLength"
    ELSE ""

StructOf(dt, values, validity) ==
    [data_type |-> dt, values |-> values, validity |-> validity]

\* StructArray::try_new
try_new(dt, values, validity) ==
    LET e == try_new_error(dt, values, validity) IN
    IF e # "" THEN [ok |-> FALSE, val |-> None, err |-> e]
    ELSE [ok |-> TRUE, val |-> Some(StructOf(dt, values, validity)), err |-> ""]

\* StructArray::new: try_new(..).unwrap()
new(dt, values, validity) ==
    LET r == try_new(dt, values, validity) IN
    IF r.ok THEN [status |-> "ok", val |-> r.val, err |-> ""]
    ELSE [status |-> "panic", val |-> None, err |-> r.err]

\* StructArray::from_data: alias for new
from_data(dt, values, validity) == new(dt, values, validity)

\* array::new_empty_array and array::new_null_array (array/mod.rs, not among
\* the listed sources): an array of the given type with no element, resp.
\* with `length` null elements
new_empty_array(dt) == LeafArray(dt, 0, None)
new_null_array(dt, length) == LeafArray(dt, length, Some(Bitmap(length)))

\* StructArray::new_empty: matches DataType::Struct itself, not the logical
\* type of an extension
new_empty(dt) ==
    IF dt.kind = "Struct"
    THEN new(dt, [i \in 1..Len(dt.fields) |->
                     new_empty_array(dt.fields[i].data_type)], None)
    ELSE [status |-> "panic", val |-> None, err |-> "NotStruct"]

\* StructArray::new_null
new_null(dt, length) ==
    IF dt.kind = "Struct"
    THEN new(dt, [i \in 1..Len(dt.fields) |->
                     new_null_array(dt.fields[i].data_type, length)],
             Some(Bitmap(length)))
    ELSE [status |-> "panic", val |-> None, err |-> "NotStruct"]

\* Bitmap::slice_unchecked
Bitmap_slice_unchecked(b, offset, length) ==
    [offset |-> b.offset + offset, length |-> length]

\* Array::slice_unchecked of a child array
Array_slice_unchecked(a, offset, length) ==
    [a EXCEPT !.offset = @ + offset,
              !.length = length,
              !.validity = IF IsSome(@)
                           THEN Some(Bitmap_slice_unchecked(Unwrap(@), offset,
                                                            length))
                           ELSE None]

\* slice_unchecked that leaves the validity bitmap as it was
slice_unchecked_keeps_validity(self, offset, length) ==
    [data_type |-> self.data_type,
     values |-> [i \in 1..Len(self.values) |->
                    Array_slice_unchecked(self.values[i], offset, length)],
     validity |-> self.validity]

\* StructArray::slice_unchecked
slice_unchecked(self, offset, length) ==
    [data_type |-> self.data_type,
     values |-> [i \in 1..Len(self.values) |->
                    Array_slice_unchecked(self.values[i], offset, length)],
     validity |-> IF IsSome(self.validity)
                  THEN Some(Bitmap_slice_unchecked(Unwrap(self.validity),
                                                   offset, length))
                  ELSE None]

\* StructArray::slice
slice(self, offset, length) ==
    IF offset + length <= ArrLen(self)
    THEN [status |-> "ok", val |-> Some(slice_unchecked(self, offset, length)),
          err |-> ""]
    ELSE [status |-> "panic", val |-> None, err |-> "SliceOutOfBounds"]

\* with_validity that only rejects a validity shorter than the array
with_validity_at_least(self, validity) ==
    IF IsSome(validity) /\ Unwrap(validity).length < ArrLen(self)
    THEN [status |-> "panic", val |-> None, err |-> "ValidityLength"]
    ELSE [status |-> "ok", val |-> Some([self EXCEPT !.validity = validity]),
          err |-> ""]

\* StructArray::with_validity
with_validity(self, validity) ==
    IF IsSome(validity) /\ Unwrap(validity).length # ArrLen(self)
    THEN [status |-> "panic", val |-> None, err |-> "ValidityLength"]
    ELSE [status |-> "ok", val |-> Some([self EXCEPT !.validity = validity]),
          err |-> ""]

(***************************************************************************)
(* The recursive decoder and the skip walker.  read_list and skip_list are *)
(* io/ipc/read/array/list.rs; the dispatchers read and skip, and the other *)
(* physical kinds, are modelled from sections 4.4, 4.5 and 6 of the design *)
(* document.                                                               *)
(***************************************************************************)
RECURSIVE read(_, _, _, _), read_list(_, _, _, _), read_struct(_, _, _, _),
          read_children(_, _, _, _, _), skip(_, _, _), skip_list(_, _, _),
          skip_children(_, _, _)

\* read_null: one field node, no buffer
read_null(nodes, dt) ==
    IF nodes = <<>> THEN Err("MissingFieldNode", nodes, <<>>)
    ELSE Ok(LeafArray(dt, Head(nodes).length, None), Tail(nodes), <<>>)

\* read_primitive: one field node, the validity slot, one data buffer
read_primitive(nodes, dt, bufs) ==
    IF nodes = <<>> THEN Err("MissingFieldNode", nodes, bufs)
    ELSE LET field_node == Head(nodes)
             validity == read_validity(bufs, field_node) IN
    IF ~validity.ok THEN Err(validity.err, Tail(nodes), validity.bufs)
    ELSE LET values == read_buffer(validity.bufs, field_node.length) IN
    IF ~values.ok THEN Err(values.err, Tail(nodes), values.bufs)
    ELSE Ok(LeafArray(dt, field_node.length, validity.val),
            Tail(nodes), values.bufs)

\* the offsets of read_list: the buffer read, or the single default offset
\* when the read failed
offsets_or_default(offsets) ==
    IF offsets.ok THEN offsets.val ELSE <<0>>

\* read_list with the validity read's failure swallowed (validity taken as
\* absent) in place of the `?` of line 46
read_list_validity_unchecked(nodes, dt, bufs, ver) ==
    IF nodes = <<>> THEN Err("MissingFieldNode", nodes, bufs)
    ELSE LET field_node == Head(nodes)
             validity == read_validity(bufs, field_node)
             offsets == read_buffer(validity.bufs, 1 + field_node.length)
             values == read(Tail(nodes), get_child_type(dt), offsets.bufs, ver)
         IN
    IF ~values.ok THEN Err(values.err, values.nodes, values.bufs)
    ELSE ListArray_try_new(dt, offsets_or_default(offsets), values.val,
                           IF validity.ok THEN validity.val ELSE None,
                           values.nodes, values.bufs)

read_list(nodes, dt, bufs, ver) ==
    IF nodes = <<>> THEN Err("MissingFieldNode", nodes, bufs)
    ELSE LET field_node == Head(nodes)
             validity == read_validity(bufs, field_node) IN
    IF ~validity.ok THEN Err(validity.err, Tail(nodes), validity.bufs)
    ELSE LET offsets == read_buffer(validity.bufs, 1 + field_node.length)
             values == read(Tail(nodes), get_child_type(dt), offsets.bufs, ver)
         IN
    IF ~values.ok THEN Err(values.err, values.nodes, values.bufs)
    ELSE ListArray_try_new(dt, offsets_or_default(offsets), values.val,
                           validity.val, values.nodes, values.bufs)

\* the children of a struct, decoded in declared order; stops at the first
\* failure
read_children(nodes, fields, bufs, ver, acc) ==
    IF fields = <<>> THEN Ok(acc, nodes, bufs)
    ELSE LET child == read(nodes, Head(fields).data_type, bufs, ver) IN
    IF ~child.ok THEN child
    ELSE read_children(child.nodes, Tail(fields), child.bufs, ver,
                       Append(acc, child.val))

\* read_struct: one field node, the validity slot, every child, then the
\* validating constructor
read_struct(nodes, dt, bufs, ver) ==
    IF nodes = <<>> THEN Err("MissingFieldNode", nodes, bufs)
    ELSE LET field_node == Head(nodes)
             validity == read_validity(bufs, field_node) IN
    IF ~validity.ok THEN Err(validity.err, Tail(nodes), validity.bufs)
    ELSE LET values == read_children(Tail(nodes), to_logical_type(dt).fields,
                                     validity.bufs, ver, <<>>) IN
    IF ~values.ok THEN values
    ELSE LET array == try_new(dt, values.val, validity.val) IN
    IF ~array.ok THEN Err(array.err, values.nodes, values.bufs)
    ELSE Ok(Unwrap(array.val), values.nodes, values.bufs)

\* deserialize::read: dispatch on the physical kind
read(nodes, dt, bufs, ver) ==
    LET kind == to_logical_type(dt).kind IN
    IF kind = "Null" THEN
        LET r == read_null(nodes, dt) IN
        IF r.ok THEN Ok(r.val, r.nodes, bufs) ELSE Err(r.err, r.nodes, bufs)
    ELSE IF kind = "Int32" THEN read_primitive(nodes, dt, bufs)
    ELSE IF kind = "List" THEN read_list(nodes, dt, bufs, ver)
    ELSE IF kind = "Struct" THEN read_struct(nodes, dt, bufs, ver)
    ELSE Err("UnsupportedType", nodes, bufs)

\* skip_list with the validity slot popped before the field node
skip_list_buffer_first(nodes, dt, bufs) ==
    IF bufs = <<>> THEN Err("MissingBuffer", nodes, bufs)
    ELSE IF nodes = <<>> THEN Err("MissingFieldNode", nodes, Tail(bufs))
    ELSE IF Tail(bufs) = <<>> THEN Err("MissingBuffer", Tail(nodes), Tail(bufs))
    ELSE skip(Tail(nodes), get_child_type(dt), Tail(Tail(bufs)))

skip_list(nodes, dt, bufs) ==
    IF nodes = <<>> THEN Err("MissingFieldNode", nodes, bufs)
    ELSE IF bufs = <<>> THEN Err("MissingBuffer", Tail(nodes), bufs)
    ELSE IF Tail(bufs) = <<>> THEN Err("MissingBuffer", Tail(nodes), Tail(bufs))
    ELSE skip(Tail(nodes), get_child_type(dt), Tail(Tail(bufs)))

skip_children(nodes, fields, bufs) ==
    IF fields = <<>> THEN Ok(None, nodes, bufs)
    ELSE LET child == skip(nodes, Head(fields).data_type, bufs) IN
    IF ~child.ok THEN child
    ELSE skip_children(child.nodes, Tail(fields), child.bufs)

\* deserialize::skip: the same arities as read, nothing materialised
skip(nodes, dt, bufs) ==
    LET kind == to_logical_type(dt).kind IN
    IF kind = "Null" THEN
        IF nodes = <<>> THEN Err("MissingFieldNode", nodes, bufs)
        ELSE Ok(None, Tail(nodes), bufs)
    ELSE IF kind = "Int32" THEN
        IF nodes = <<>> THEN Err("MissingFieldNode", nodes, bufs)
        ELSE IF bufs = <<>> THEN Err("MissingBuffer", Tail(nodes), bufs)
        ELSE IF Tail(bufs) = <<>>
        THEN Err("MissingBuffer", Tail(nodes), Tail(bufs))
        ELSE Ok(None, Tail(nodes), Tail(Tail(bufs)))
    ELSE IF kind = "List" THEN skip_list(nodes, dt, bufs)
    ELSE IF kind = "Struct" THEN
        IF nodes = <<>> THEN Err("MissingFieldNode", nodes, bufs)
        ELSE IF bufs = <<>> THEN Err("MissingBuffer", Tail(nodes), bufs)
        ELSE skip_children(Tail(nodes), to_logical_type(dt).fields, Tail(bufs))
    ELSE Err("UnsupportedType", nodes, bufs)

(***************************************************************************)
(* The IPC messages the model decodes.                                     *)
(***************************************************************************)
Versions == {"V4", "V5"}
\* the metadata versions older than the current one
IsLegacy(ver) == ver # "V5"

Nodes == [length : 0..MaxLen, null_count : 0..1]
Descriptors(step) == [length : 0..(MaxLen + 1), step : {step}]

ListTypes == {List(Null), List(Int32), List(List(Null))}
StructTypes == {Struct(<<Field("a", Null), Field("b", Null)>>),
                Struct(<<Field("a", Int32)>>)}

\* the field nodes and buffers a well-formed message holds for a type
RECURSIVE NodesRequired(_), BuffersRequired(_), SumOver(_, _, _)
SumOver(fields, i, buf) ==
    IF i > Len(fields) THEN 0
    ELSE (IF buf THEN BuffersRequired(fields[i].data_type)
                 ELSE NodesRequired(fields[i].data_type))
         + SumOver(fields, i + 1, buf)
NodesRequired(dt) ==
    IF dt.kind = "List" THEN 1 + NodesRequired(dt.child)
    ELSE IF dt.kind = "Struct" THEN 1 + SumOver(dt.fields, 1, FALSE)
    ELSE 1
BuffersRequired(dt) ==
    IF dt.kind = "List" THEN 2 + BuffersRequired(dt.child)
    ELSE IF dt.kind = "Struct" THEN 1 + SumOver(dt.fields, 1, TRUE)
    ELSE IF dt.kind = "Null" THEN 0
    ELSE 2

NoResult == [ok |-> FALSE, val |-> None, err |-> "NotCalled"]
Result(r) == [ok |-> r.ok, val |-> IF r.ok THEN Some(r.val) ELSE None,
              err |-> r.err]

NoCall == [op |-> "none"]

StructIdle ==
    /\ s_self = None
    /\ s_ret = None
    /\ s_call = NoCall

NoCmp == [op |-> "none"]

CmpIdle == cmp = NoCmp

InitIpc ==
    /\ data_type \in ListTypes \cup StructTypes
    /\ version \in Versions
    /\ \E step \in 0..MaxStep :
         msg \in [nodes : SeqsUpTo(Nodes, NodesRequired(data_type)),
                  bufs : SeqsUpTo(Descriptors(step), BuffersRequired(data_type))]
    /\ field_nodes = msg.nodes
    /\ buffers = msg.bufs
    /\ rd = NoResult
    /\ sk_field_nodes = msg.nodes
    /\ sk_buffers = msg.bufs
    /\ sk = NoResult
    /\ StructIdle
    /\ CmpIdle

\* a reader decodes the column with read_list
ReadList ==
    /\ data_type \in ListTypes
    /\ rd = NoResult
    /\ LET r == read_list(field_nodes, data_type, buffers, version) IN
        /\ field_nodes' = r.nodes
        /\ buffers' = r.bufs
        /\ rd' = Result(r)
    /\ UNCHANGED <<data_type, version, msg, sk_field_nodes, sk_buffers, sk>>
    /\ UNCHANGED <<struct_vars, cmp_vars>>

\* a reader decodes the column with read_struct
ReadStruct ==
    /\ data_type \in StructTypes
    /\ rd = NoResult
    /\ LET r == read_struct(field_nodes, data_type, buffers, version) IN
        /\ field_nodes' = r.nodes
        /\ buffers' = r.bufs
        /\ rd' = Result(r)
    /\ UNCHANGED <<data_type, version, msg, sk_field_nodes, sk_buffers, sk>>
    /\ UNCHANGED <<struct_vars, cmp_vars>>

\* a reader that does not project the column walks over it with skip_list
SkipList ==
    /\ data_type \in ListTypes
    /\ sk = NoResult
    /\ LET r == skip_list(sk_field_nodes, data_type, sk_buffers) IN
        /\ sk_field_nodes' = r.nodes
        /\ sk_buffers' = r.bufs
        /\ sk' = [ok |-> r.ok, val |-> None, err |-> r.err]
    /\ UNCHANGED <<data_type, version, msg, field_nodes, buffers, rd>>
    /\ UNCHANGED <<struct_vars, cmp_vars>>

NextIpc == ReadList \/ ReadStruct \/ SkipList

SpecIpc == InitIpc /\ [][NextIpc]_vars

(***************************************************************************)
(* Properties of read_list and skip_list.                                  *)
(***************************************************************************)
ReadListDone == data_type \in ListTypes /\ rd # NoResult
SkipListDone == data_type \in ListTypes /\ sk # NoResult
ReadStructDone == data_type \in StructTypes /\ rd # NoResult

NodesConsumed == Len(msg.nodes) - Len(field_nodes)
BuffersConsumed == Len(msg.bufs) - Len(buffers)
SkipNodesConsumed == Len(msg.nodes) - Len(sk_field_nodes)
SkipBuffersConsumed == Len(msg.bufs) - Len(sk_buffers)

\* the stages of read_list on the message as received
ListNode == Head(msg.nodes)
ListValidity == read_validity(msg.bufs, ListNode)
ListOffsets == read_buffer(ListValidity.bufs, 1 + ListNode.length)
ListChild == read(Tail(msg.nodes), get_child_type(data_type),
                  ListOffsets.bufs, version)
ListConstructionError ==
    ListArray_try_new_error(data_type, offsets_or_default(ListOffsets),
                            ListChild.val, ListValidity.val)

\* the list's validity slot, resp. offsets slot, finds the buffer queue empty
ValiditySlotEmpty == msg.nodes # <<>> /\ msg.bufs = <<>>
OffsetsSlotEmpty ==
    msg.nodes # <<>> /\ Len(msg.bufs) = 1 /\ ListValidity.ok
\* the offsets read of the list fails (empty queue or short buffer)
OffsetsReadFails == msg.nodes # <<>> /\ ListValidity.ok /\ ~ListOffsets.ok

\* C1: on the same queues, a read_list that completes has removed exactly
\* as many field nodes and as many buffer descriptors as skip_list removes.
C1_ReadSkipSameConsumption ==
    (ReadListDone /\ SkipListDone /\ rd.ok) =>
        /\ NodesConsumed = SkipNodesConsumed
        /\ BuffersConsumed = SkipBuffersConsumed

\* C2: when the validity slot or the offsets slot of the list finds the
\* buffer queue empty, read_list fails with a corruption error.
C2_EmptyBufferQueueIsCorruption ==
    (ReadListDone /\ (ValiditySlotEmpty \/ OffsetsSlotEmpty)) =>
        ~rd.ok /\ rd.err \in CorruptionErrors

\* C3: for a non-legacy version a failed offsets read makes read_list
\* return an error; the single-offset substitution is for legacy versions.
C3_FallbackGatedByVersion ==
    (ReadListDone /\ ~IsLegacy(version) /\ OffsetsReadFails) => ~rd.ok

\* C4: a ListArray returned by read_list has exactly node.length + 1
\* offsets, node being the list's field node.
C4_OffsetsLengthIsNodeLengthPlusOne ==
    (ReadListDone /\ rd.ok) =>
        Len(Unwrap(rd.val).offsets) = ListNode.length + 1

\* C5: with the field-node queue empty on entry, read_list and skip_list
\* each return an error and remove nothing from the buffer queue.
C5_EmptyNodeQueueIsError ==
    (data_type \in ListTypes /\ msg.nodes = <<>>) =>
        /\ ReadListDone => (~rd.ok /\ rd.err = "MissingFieldNode"
                            /\ buffers = msg.bufs /\ field_nodes = <<>>)
        /\ SkipListDone => (~sk.ok /\ sk.err = "MissingFieldNode"
                            /\ sk_buffers = msg.bufs /\ sk_field_nodes = <<>>)

C5_Witness ==
    /\ ReadListDone /\ SkipListDone
    /\ msg.nodes = <<>> /\ Len(msg.bufs) >= 2

\* C6: read_list returns the error of a failed validity read, of a failed
\* child decode or of a failed ListArray construction, and no array; it
\* returns a ListArray only when the child was decoded and the validating
\* constructor accepted the offsets, the child and the validity, and then
\* that very array.
C6_ErrorsPropagate ==
    (ReadListDone /\ msg.nodes # <<>>) =>
        /\ ~ListValidity.ok =>
              rd = [ok |-> FALSE, val |-> None, err |-> ListValidity.err]
        /\ (ListValidity.ok /\ ~ListChild.ok) =>
              rd = [ok |-> FALSE, val |-> None, err |-> ListChild.err]
        /\ (ListValidity.ok /\ ListChild.ok /\ ListConstructionError # "") =>
              rd = [ok |-> FALSE, val |-> None, err |-> ListConstructionError]
        /\ rd.ok =>
              /\ ListValidity.ok /\ ListChild.ok /\ ListConstructionError = ""
              /\ Unwrap(rd.val).values = ListChild.val
              /\ Unwrap(rd.val).validity = ListValidity.val
              /\ Unwrap(rd.val).data_type = data_type

C6_Witness ==
    /\ ReadListDone /\ msg.nodes # <<>>
    /\ data_type = List(Int32)
    /\ ListValidity.ok /\ ~ListChild.ok /\ ListChild.err = "ReadFailed"
    /\ ~rd.ok /\ rd.err = "ReadFailed"

\* the stages of read_struct on the message as received
StructNode == Head(msg.nodes)
StructValidity == read_validity(msg.bufs, StructNode)
StructChildren == read_children(Tail(msg.nodes), data_type.fields,
                                StructValidity.bufs, version, <<>>)

\* C9: a struct whose decoded children have a length different from the
\* length its own field node declares is rejected, also when the struct has
\* no validity bitmap.
C9_ChildLengthMatchesFieldNode ==
    (/\ ReadStructDone /\ msg.nodes # <<>>
     /\ StructValidity.ok /\ StructChildren.ok
     /\ \E i \in 1..Len(StructChildren.val) :
           ArrLen(StructChildren.val[i]) # StructNode.length)
    => ~rd.ok

(***************************************************************************)
(* StructArray: the calls a user of the type makes.  A constructor starts  *)
(* a chain; slice and with_validity are called on the array the previous   *)
(* call returned.                                                          *)
(***************************************************************************)
ChildTypes == {Int32, Boolean}
ChildArrays == {LeafArray(t, n, None) : t \in ChildTypes, n \in 0..MaxRows}
FieldName(i) == IF i = 1 THEN "a" ELSE IF i = 2 THEN "b"
                ELSE IF i = 3 THEN "c" ELSE "d"
FieldSeqs ==
    UNION {{[i \in 1..k |-> Field(FieldName(i), ts[i])] :
               ts \in [1..k -> ChildTypes]} : k \in 0..MaxFields}
ArgTypes ==
    {Struct(fs) : fs \in FieldSeqs}
    \cup {Extension(Struct(fs)) : fs \in FieldSeqs}
    \cup {Int32, Extension(Int32)}
ArgValues == SeqsUpTo(ChildArrays, MaxFields)
ArgValidity == {None} \cup {Some(Bitmap(n)) : n \in 0..MaxRows}

Call(op, dt, values, validity, offset, length, status, err) ==
    [op |-> op, data_type |-> dt, values |-> values, validity |-> validity,
     offset |-> offset, length |-> length, status |-> status, err |-> err]

IpcIdle ==
    /\ data_type = Null
    /\ version = "V5"
    /\ msg = [nodes |-> <<>>, bufs |-> <<>>]
    /\ field_nodes = <<>>
    /\ buffers = <<>>
    /\ rd = NoResult
    /\ sk_field_nodes = <<>>
    /\ sk_buffers = <<>>
    /\ sk = NoResult

InitStruct == IpcIdle /\ StructIdle /\ CmpIdle

\* a constructor is called on arguments of the caller's choice
Constructing == s_call = NoCall

TryNew ==
    /\ Constructing
    /\ \E dt \in ArgTypes, values \in ArgValues, validity \in ArgValidity :
        LET r == try_new(dt, values, validity) IN
        /\ s_ret' = r.val
        /\ s_call' = Call("try_new", dt, values, validity, 0, 0,
                          IF r.ok THEN "ok" ELSE "err", r.err)
    /\ s_self' = None
    /\ UNCHANGED <<ipc_vars, cmp_vars>>

New ==
    /\ Constructing
    /\ \E dt \in ArgTypes, values \in ArgValues, validity \in ArgValidity :
        LET r == new(dt, values, validity) IN
        /\ s_ret' = r.val
        /\ s_call' = Call("new", dt, values, validity, 0, 0, r.status, r.err)
    /\ s_self' = None
    /\ UNCHANGED <<ipc_vars, cmp_vars>>

FromData ==
    /\ Constructing
    /\ \E dt \in ArgTypes, values \in ArgValues, validity \in ArgValidity :
        LET r == from_data(dt, values, validity) IN
        /\ s_ret' = r.val
        /\ s_call' = Call("from_data", dt, values, validity, 0, 0,
                          r.status, r.err)
    /\ s_self' = None
    /\ UNCHANGED <<ipc_vars, cmp_vars>>

NewEmpty ==
    /\ Constructing
    /\ \E dt \in ArgTypes :
        LET r == new_empty(dt) IN
        /\ s_ret' = r.val
        /\ s_call' = Call("new_empty", dt, <<>>, None, 0, 0, r.status, r.err)
    /\ s_self' = None
    /\ UNCHANGED <<ipc_vars, cmp_vars>>

NewNull ==
    /\ Constructing
    /\ \E dt \in ArgTypes, length \in 0..MaxRows :
        LET r == new_null(dt, length) IN
        /\ s_ret' = r.val
        /\ s_call' = Call("new_null", dt, <<>>, None, 0, length,
                          r.status, r.err)
    /\ s_self' = None
    /\ UNCHANGED <<ipc_vars, cmp_vars>>

\* self.slice(offset, length), self being the array returned last
Slice ==
    /\ IsSome(s_ret)
    /\ \E offset \in 0..MaxRows, length \in 0..MaxRows :
        LET self == Unwrap(s_ret)
            r == slice(self, offset, length) IN
        /\ s_self' = Some(self)
        /\ s_ret' = r.val
        /\ s_call' = Call("slice", self.data_type, <<>>, None, offset, length,
                          r.status, r.err)
    /\ UNCHANGED <<ipc_vars, cmp_vars>>

\* self.with_validity(validity), self being the array returned last
WithValidity ==
    /\ IsSome(s_ret)
    /\ \E validity \in ArgValidity :
        LET self == Unwrap(s_ret)
            r == with_validity(self, validity) IN
        /\ s_self' = Some(self)
        /\ s_ret' = r.val
        /\ s_call' = Call("with_validity", self.data_type, <<>>, validity,
                          0, 0, r.status, r.err)
    /\ UNCHANGED <<ipc_vars, cmp_vars>>

NextStruct ==
    \/ TryNew
    \/ New
    \/ FromData
    \/ NewEmpty
    \/ NewNull
    \/ Slice
    \/ WithValidity

SpecStruct == InitStruct /\ [][NextStruct]_vars

(***************************************************************************)
(* Properties of StructArray.                                              *)
(***************************************************************************)
\* the conditions under which try_new is documented to fail, read off the
\* arguments of the call
NotStructType(dt) == to_logical_type(dt).kind # "Struct"
NoChildFields(dt) == Len(to_logical_type(dt).fields) = 0
FieldCountDiffers(dt, values) ==
    Len(values) # Len(to_logical_type(dt).fields)
SomeChildTypeDiffers(dt, values) ==
    \E i \in 1..Len(values) :
        values[i].data_type # to_logical_type(dt).fields[i].data_type
SomeChildLengthDiffers(values) ==
    \E i \in 1..Len(values) : ArrLen(values[i]) # ArrLen(values[1])
ValidityLengthDiffers(values, validity) ==
    IsSome(validity) /\ Unwrap(validity).length # ArrLen(values[1])

TryNewMustFail(dt, values, validity) ==
    \/ NotStructType(dt)
    \/ NoChildFields(dt)
    \/ FieldCountDiffers(dt, values)
    \/ SomeChildTypeDiffers(dt, values)
    \/ SomeChildLengthDiffers(values)
    \/ ValidityLengthDiffers(values, validity)

\* C7: try_new returns an error exactly when the data type is no struct,
\* has no field, the number of values differs from the number of fields, a
\* value's type differs from its field's, a value's length differs from the
\* first value's, or the validity's length differs from the first value's
\* length; otherwise it returns the array made of the three arguments.  It
\* never panics.
C7_TryNewErrorsIff ==
    (s_call.op = "try_new") =>
        /\ s_call.status \in {"ok", "err"}
        /\ s_call.status = "err" <=>
              TryNewMustFail(s_call.data_type, s_call.values, s_call.validity)
        /\ s_call.status = "err" => s_ret = None
        /\ s_call.status = "ok" =>
              s_ret = Some([data_type |-> s_call.data_type,
                            values |-> s_call.values,
                            validity |-> s_call.validity])

C7_Witness ==
    /\ s_call.op = "try_new"
    /\ s_call.status = "err"
    /\ ~NotStructType(s_call.data_type)
    /\ ~NoChildFields(s_call.data_type)
    /\ ~FieldCountDiffers(s_call.data_type, s_call.values)
    /\ ~SomeChildTypeDiffers(s_call.data_type, s_call.values)
    /\ ~SomeChildLengthDiffers(s_call.values)
    /\ ValidityLengthDiffers(s_call.values, s_call.validity)
    /\ Len(s_call.values) = 2

\* the invariant of a StructArray
StructInvariant(a) ==
    LET fields == to_logical_type(a.data_type).fields IN
    /\ to_logical_type(a.data_type).kind = "Struct"
    /\ Len(a.values) >= 1
    /\ Len(a.values) = Len(fields)
    /\ \A i \in 1..Len(a.values) :
          /\ ArrLen(a.values[i]) = ArrLen(a.values[1])
          /\ a.values[i].data_type = fields[i].data_type
    /\ IsSome(a.validity) => Unwrap(a.validity).length = ArrLen(a)

\* C8: every StructArray returned by try_new, new, from_data, new_empty,
\* new_null, slice or with_validity has at least one child, as many
\* children as declared fields, children of one length and of their field's
\* type, and a validity, when present, as long as the array.
C8_StructInvariantHolds ==
    /\ IsSome(s_ret) => StructInvariant(Unwrap(s_ret))
    /\ IsSome(s_self) => StructInvariant(Unwrap(s_self))

C8_Witness ==
    /\ s_call.op = "slice"
    /\ s_call.status = "ok"
    /\ IsSome(s_ret)
    /\ IsSome(Unwrap(s_ret).validity)
    /\ Len(Unwrap(s_ret).values) = 2
    /\ ArrLen(Unwrap(s_ret)) < ArrLen(Unwrap(s_self))

\* C10: slice requires offset + length to be smaller than self.len(): it
\* panics exactly when offset + length is not smaller than self.len().
C10_SlicePanicsUnlessSmaller ==
    (s_call.op = "slice") =>
        (s_call.status = "panic" <=>
            ~(s_call.offset + s_call.length < ArrLen(Unwrap(s_self))))

\* C11: with_validity panics exactly when the validity is a bitmap whose
\* length differs from self.len(); otherwise the result has the given
\* validity and the data type and children of self, and self is the array
\* it was before the call.
C11_WithValidityContract ==
    [][(s_call'.op = "with_validity") =>
        LET self == Unwrap(s_ret)
            validity == s_call'.validity
        IN
        /\ s_self' = s_ret
        /\ s_call'.status \in {"ok", "panic"}
        /\ s_call'.status = "panic" <=>
              (IsSome(validity) /\ Unwrap(validity).length # ArrLen(self))
        /\ s_call'.status = "panic" => s_ret' = None
        /\ s_call'.status = "ok" =>
              /\ IsSome(s_ret')
              /\ Unwrap(s_ret').validity = validity
              /\ Unwrap(s_ret').data_type = self.data_type
              /\ Unwrap(s_ret').values = self.values
    ]_vars

C11_Witness ==
    /\ s_call.op = "with_validity"
    /\ s_call.status = "ok"
    /\ IsSome(s_call.validity)
    /\ IsSome(s_self) /\ ~IsSome(Unwrap(s_self).validity)
    /\ IsSome(s_ret) /\ Unwrap(s_ret).validity = s_call.validity
    /\ Len(Unwrap(s_ret).values) = 2

(***************************************************************************)
(* compute/comparison/mod.rs: the dynamically typed comparison operators.  *)
(* An array is its data type and its length, a scalar its data type and    *)
(* whether it is valid: the dispatch looks at nothing else.                *)
(***************************************************************************)
Simple(kind) == [kind |-> kind]
Interval(unit) == [kind |-> "Interval", unit |-> unit]
Dictionary(values) == [kind |-> "Dictionary", key |-> "Int32", values |-> values]

\* the logical types that carry no wrapper
BaseTypes ==
    {Simple(k) : k \in {"Null", "Boolean", "Int8", "Int16", "Int32", "Int64",
                        "UInt8", "UInt16", "UInt32", "UInt64",
                        "Float32", "Float64", "Timestamp", "Date32", "Date64",
                        "Time32", "Time64", "Duration", "Binary",
                        "FixedSizeBinary", "LargeBinary", "Utf8", "LargeUtf8",
                        "FixedSizeList", "LargeList", "Union", "Map",
                        "Decimal"}}
    \cup {Interval(u) : u \in {"YearMonth", "DayTime", "MonthDayNano"}}
    \cup {List(Int32), Struct(<<Field("a", Int32)>>)}

RECURSIVE WrappedTypes(_)
WrappedTypes(n) ==
    IF n = 0 THEN BaseTypes
    ELSE LET T == WrappedTypes(n - 1) IN
         T \cup {Extension(t) : t \in T} \cup {Dictionary(t) : t \in T}

CmpTypes == WrappedTypes(MaxWrap)

PhysicalPrimitive(primitive) == [kind |-> "Primitive", primitive |-> primitive]

\* DataType::to_physical_type
RECURSIVE to_physical_type(_)
to_physical_type(dt) ==
    CASE dt.kind = "Extension" -> to_physical_type(dt.inner)
      [] dt.kind \in {"Int8", "Int16", "Int64", "UInt8", "UInt16", "UInt32",
                      "UInt64", "Float32", "Float64"} ->
            PhysicalPrimitive(dt.kind)
      [] dt.kind \in {"Int32", "Date32", "Time32"} -> PhysicalPrimitive("Int32")
      [] dt.kind \in {"Date64", "Timestamp", "Time64", "Duration"} ->
            PhysicalPrimitive("Int64")
      [] dt.kind = "Decimal" -> PhysicalPrimitive("Int128")
      [] dt.kind = "Interval" ->
            IF dt.unit = "YearMonth" THEN PhysicalPrimitive("Int32")
            ELSE IF dt.unit = "DayTime" THEN PhysicalPrimitive("DaysMs")
            ELSE PhysicalPrimitive("MonthDayNano")
      [] OTHER -> [kind |-> dt.kind]

\* the typed kernels (boolean::eq, primitive::lt, utf8::eq_scalar, ...):
\* two arrays must have the same length
typed_kernel(lhs_len, rhs_len) ==
    IF lhs_len = rhs_len THEN "ok" ELSE "panic_len"

\* macro match_eq: every primitive type has an arm
match_eq(primitive) == "arm"

\* macro match_eq_ord: DaysMs and MonthDayNano are todo!()
match_eq_ord(primitive) ==
    IF primitive \in {"DaysMs", "MonthDayNano"} THEN "todo" ELSE "arm"

primitive_dispatch(p, primitive) ==
    IF p = "match_eq" THEN match_eq(primitive) ELSE match_eq_ord(primitive)

\* macro compare!
compare(lhs, rhs, p) ==
    IF to_logical_type(lhs.data_type) # to_logical_type(rhs.data_type)
    THEN "panic_assert_eq"
    ELSE LET physical == to_physical_type(lhs.data_type) IN
         CASE physical.kind = "Boolean" -> typed_kernel(lhs.len, rhs.len)
           [] physical.kind = "Primitive" ->
                 IF primitive_dispatch(p, physical.primitive) = "todo"
                 THEN "panic_todo"
                 ELSE typed_kernel(lhs.len, rhs.len)
           [] physical.kind \in {"Utf8", "LargeUtf8", "Binary", "LargeBinary"} ->
                 typed_kernel(lhs.len, rhs.len)
           [] OTHER -> "panic_todo"

eq(lhs, rhs) == compare(lhs, rhs, "match_eq")
eq_and_validity(lhs, rhs) == compare(lhs, rhs, "match_eq")
neq(lhs, rhs) == compare(lhs, rhs, "match_eq")
neq_and_validity(lhs, rhs) == compare(lhs, rhs, "match_eq")
lt(lhs, rhs) == compare(lhs, rhs, "match_eq_ord")
lt_eq(lhs, rhs) == compare(lhs, rhs, "match_eq_ord")
gt(lhs, rhs) == compare(lhs, rhs, "match_eq_ord")
gt_eq(lhs, rhs) == compare(lhs, rhs, "match_eq_ord")

\* DictionaryArray::values: the dictionary's values array
DictionaryValues(lhs) ==
    [data_type |-> to_logical_type(lhs.data_type).values, len |-> lhs.len]

\* macro compare_scalar!; the Dictionary arm calls the operator again on the
\* values array with the same scalar
RECURSIVE compare_scalar(_, _, _)
compare_scalar(lhs, rhs, p) ==
    IF to_logical_type(lhs.data_type) # to_logical_type(rhs.data_type)
    THEN "panic_assert_eq"
    ELSE IF ~rhs.valid THEN "all_null"
    ELSE LET physical == to_physical_type(lhs.data_type) IN
         CASE physical.kind = "Boolean" -> "ok"
           [] physical.kind = "Primitive" ->
                 IF primitive_dispatch(p, physical.primitive) = "todo"
                 THEN "panic_todo"
                 ELSE "ok"
           [] physical.kind \in {"Utf8", "LargeUtf8", "Binary", "LargeBinary"} ->
                 "ok"
           [] physical.kind = "Dictionary" ->
                 compare_scalar(DictionaryValues(lhs), rhs, p)
           [] OTHER -> "panic_todo"

eq_scalar(lhs, rhs) == compare_scalar(lhs, rhs, "match_eq")
eq_scalar_and_validity(lhs, rhs) == compare_scalar(lhs, rhs, "match_eq")
neq_scalar(lhs, rhs) == compare_scalar(lhs, rhs, "match_eq")
neq_scalar_and_validity(lhs, rhs) == compare_scalar(lhs, rhs, "match_eq")
lt_scalar(lhs, rhs) == compare_scalar(lhs, rhs, "match_eq_ord")
lt_eq_scalar(lhs, rhs) == compare_scalar(lhs, rhs, "match_eq_ord")
gt_scalar(lhs, rhs) == compare_scalar(lhs, rhs, "match_eq_ord")
gt_eq_scalar(lhs, rhs) == compare_scalar(lhs, rhs, "match_eq_ord")

\* the ordered types, with the two interval types that only have equality
can_partial_eq_and_ord_with_intervals(dt) ==
    dt \in {Simple("Boolean"), Simple("Int8"), Simple("Int16"), Simple("Int32"),
            Simple("Date32"), Simple("Time32"), Interval("YearMonth"),
            Simple("Int64"), Simple("Timestamp"), Simple("Date64"),
            Simple("Time64"), Simple("Duration"), Simple("UInt8"),
            Simple("UInt16"), Simple("UInt32"), Simple("UInt64"),
            Simple("Float32"), Simple("Float64"), Simple("Utf8"),
            Simple("LargeUtf8"), Simple("Decimal"), Simple("Binary"),
            Simple("LargeBinary"), Interval("DayTime"),
            Interval("MonthDayNano")}

\* can_partial_eq_and_ord: matches!(data_type, ...) on the data type as given
can_partial_eq_and_ord(dt) ==
    dt \in {Simple("Boolean"), Simple("Int8"), Simple("Int16"), Simple("Int32"),
            Simple("Date32"), Simple("Time32"), Interval("YearMonth"),
            Simple("Int64"), Simple("Timestamp"), Simple("Date64"),
            Simple("Time64"), Simple("Duration"), Simple("UInt8"),
            Simple("UInt16"), Simple("UInt32"), Simple("UInt64"),
            Simple("Float32"), Simple("Float64"), Simple("Utf8"),
            Simple("LargeUtf8"), Simple("Decimal"), Simple("Binary"),
            Simple("LargeBinary")}

RECURSIVE can_partial_eq_and_ord_scalar(_)
can_partial_eq_and_ord_scalar(dt) ==
    IF to_logical_type(dt).kind = "Dictionary"
    THEN can_partial_eq_and_ord_scalar(to_logical_type(dt).values)
    ELSE can_partial_eq_and_ord(dt)

can_partial_eq(dt) ==
    \/ can_partial_eq_and_ord(dt)
    \/ to_logical_type(dt) \in {Interval("DayTime"), Interval("MonthDayNano")}

can_partial_eq_scalar(dt) ==
    \/ can_partial_eq_and_ord_scalar(dt)
    \/ to_logical_type(dt) \in {Interval("DayTime"), Interval("MonthDayNano")}

can_eq(dt) == can_partial_eq(dt)
can_neq(dt) == can_partial_eq(dt)
can_lt(dt) == can_partial_eq_and_ord(dt)
can_lt_eq(dt) == can_partial_eq_and_ord(dt)
can_gt(dt) == can_partial_eq_and_ord(dt)
can_gt_eq(dt) == can_partial_eq_and_ord(dt)
can_eq_scalar(dt) == can_partial_eq_scalar(dt)
can_neq_scalar(dt) == can_partial_eq_scalar(dt)
can_lt_scalar(dt) == can_partial_eq_and_ord_scalar(dt)
can_lt_eq_scalar(dt) == can_partial_eq_and_ord_scalar(dt)
can_gt_scalar(dt) == can_partial_eq_and_ord_scalar(dt)
can_gt_eq_scalar(dt) == can_partial_eq_and_ord_scalar(dt)

(***************************************************************************)
(* The comparison operators as a state machine: a caller picks an          *)
(* operator, an array and a second array or a scalar; the state records    *)
(* the call, what the matching can_* predicate says of the array's data    *)
(* type, and how the call ended.                                           *)
(***************************************************************************)
\* the data types of the right-hand side tried against a left-hand side:
\* every type of the same logical type, the values type of a dictionary,
\* and two types of another logical type
RhsTypes(lhs_type) ==
    {t \in CmpTypes : to_logical_type(t) = to_logical_type(lhs_type)}
    \cup (IF to_logical_type(lhs_type).kind = "Dictionary"
          THEN {to_logical_type(lhs_type).values} ELSE {})
    \cup {Simple("Boolean"), Simple("Utf8")}

InitCmp == IpcIdle /\ StructIdle /\ CmpIdle

Comparing == cmp = NoCmp

\* the public operator of that name, applied to two arrays
array_op(name, lhs, rhs) ==
    CASE name = "eq" -> eq(lhs, rhs)
      [] name = "eq_and_validity" -> eq_and_validity(lhs, rhs)
      [] name = "neq" -> neq(lhs, rhs)
      [] name = "neq_and_validity" -> neq_and_validity(lhs, rhs)
      [] name = "lt" -> lt(lhs, rhs)
      [] name = "lt_eq" -> lt_eq(lhs, rhs)
      [] name = "gt" -> gt(lhs, rhs)
      [] name = "gt_eq" -> gt_eq(lhs, rhs)

\* the public operator of that name, applied to an array and a scalar
scalar_op(name, lhs, rhs) ==
    CASE name = "eq_scalar" -> eq_scalar(lhs, rhs)
      [] name = "eq_scalar_and_validity" -> eq_scalar_and_validity(lhs, rhs)
      [] name = "neq_scalar" -> neq_scalar(lhs, rhs)
      [] name = "neq_scalar_and_validity" -> neq_scalar_and_validity(lhs, rhs)
      [] name = "lt_scalar" -> lt_scalar(lhs, rhs)
      [] name = "lt_eq_scalar" -> lt_eq_scalar(lhs, rhs)
      [] name = "gt_scalar" -> gt_scalar(lhs, rhs)
      [] name = "gt_eq_scalar" -> gt_eq_scalar(lhs, rhs)

\* the can_* predicate that the documentation of the operator names
can_op(name, dt) ==
    CASE name \in {"eq", "eq_and_validity"} -> can_eq(dt)
      [] name \in {"neq", "neq_and_validity"} -> can_neq(dt)
      [] name = "lt" -> can_lt(dt)
      [] name = "lt_eq" -> can_lt_eq(dt)
      [] name = "gt" -> can_gt(dt)
      [] name = "gt_eq" -> can_gt_eq(dt)
      [] name \in {"eq_scalar", "eq_scalar_and_validity"} -> can_eq_scalar(dt)
      [] name \in {"neq_scalar", "neq_scalar_and_validity"} ->
            can_neq_scalar(dt)
      [] name = "lt_scalar" -> can_lt_scalar(dt)
      [] name = "lt_eq_scalar" -> can_lt_eq_scalar(dt)
      [] name = "gt_scalar" -> can_gt_scalar(dt)
      [] name = "gt_eq_scalar" -> can_gt_eq_scalar(dt)

CompareArrays(name) ==
    /\ Comparing
    /\ \E lhs_type \in CmpTypes, lhs_len, rhs_len \in 1..MaxRows :
       \E rhs_type \in RhsTypes(lhs_type) :
          LET lhs == [data_type |-> lhs_type, len |-> lhs_len]
              rhs == [data_type |-> rhs_type, len |-> rhs_len]
          IN cmp' = [op |-> name, scalar |-> FALSE, lhs |-> lhs, rhs |-> rhs,
                     can |-> can_op(name, lhs_type),
                     outcome |-> array_op(name, lhs, rhs)]
    /\ UNCHANGED <<ipc_vars, struct_vars>>

CompareScalar(name) ==
    /\ Comparing
    /\ \E lhs_type \in CmpTypes, lhs_len \in 1..MaxRows, valid \in BOOLEAN :
       \E rhs_type \in RhsTypes(lhs_type) :
          LET lhs == [data_type |-> lhs_type, len |-> lhs_len]
              rhs == [data_type |-> rhs_type, valid |-> valid]
          IN cmp' = [op |-> name, scalar |-> TRUE, lhs |-> lhs, rhs |-> rhs,
                     can |-> can_op(name, lhs_type),
                     outcome |-> scalar_op(name, lhs, rhs)]
    /\ UNCHANGED <<ipc_vars, struct_vars>>

Eq == CompareArrays("eq")
EqAndValidity == CompareArrays("eq_and_validity")
Neq == CompareArrays("neq")
NeqAndValidity == CompareArrays("neq_and_validity")
Lt == CompareArrays("lt")
LtEq == CompareArrays("lt_eq")
Gt == CompareArrays("gt")
GtEq == CompareArrays("gt_eq")
EqScalar == CompareScalar("eq_scalar")
EqScalarAndValidity == CompareScalar("eq_scalar_and_validity")
NeqScalar == CompareScalar("neq_scalar")
NeqScalarAndValidity == CompareScalar("neq_scalar_and_validity")
LtScalar == CompareScalar("lt_scalar")
LtEqScalar == CompareScalar("lt_eq_scalar")
GtScalar == CompareScalar("gt_scalar")
GtEqScalar == CompareScalar("gt_eq_scalar")

NextCmp ==
    \/ Eq \/ EqAndValidity \/ Neq \/ NeqAndValidity
    \/ Lt \/ LtEq \/ Gt \/ GtEq
    \/ EqScalar \/ EqScalarAndValidity \/ NeqScalar \/ NeqScalarAndValidity
    \/ LtScalar \/ LtEqScalar \/ GtScalar \/ GtEqScalar

SpecCmp == InitCmp /\ [][NextCmp]_vars

EqualityOps == {"eq", "neq"}
OrderingOps == {"lt", "lt_eq", "gt", "gt_eq"}
ScalarOps == {"eq_scalar", "eq_scalar_and_validity", "neq_scalar",
              "neq_scalar_and_validity", "lt_scalar", "lt_eq_scalar",
              "gt_scalar", "gt_eq_scalar"}
SameLogicalType ==
    to_logical_type(cmp.lhs.data_type) = to_logical_type(cmp.rhs.data_type)

\* C12: for eq and neq on two arrays of the same logical type and length,
\* the "not yet supported" panic is reached exactly when can_eq / can_neq
\* returns false for the arrays' data type.
C12_CanEqIffSupported ==
    (cmp.op \in EqualityOps /\ cmp.lhs.data_type = cmp.rhs.data_type
        /\ cmp.lhs.len = cmp.rhs.len)
    => (cmp.outcome = "panic_todo" <=> ~cmp.can)

\* C13: when can_lt / can_lt_eq / can_gt / can_gt_eq returns true for a data
\* type, the operator on two arrays of that data type does not reach a
\* todo!(): neither the catch-all one nor those of DaysMs and MonthDayNano.
C13_CanOrdNeverTodo ==
    (cmp.op \in OrderingOps /\ cmp.can) => cmp.outcome # "panic_todo"

C13_Witness ==
    /\ cmp.op = "lt_eq"
    /\ cmp.can
    /\ cmp.lhs.data_type = Simple("Decimal")
    /\ cmp.rhs.data_type = Simple("Decimal")
    /\ cmp.outcome = "ok"

\* C14: a scalar comparison whose can_*_scalar returns true for the array's
\* data type, with a valid scalar of the array's logical type, does not
\* panic; dictionary arrays included.
C14_CanScalarNeverPanics ==
    (cmp.op \in ScalarOps /\ cmp.can /\ cmp.rhs.valid /\ SameLogicalType)
    => cmp.outcome = "ok"

\* what the child subtree of the list removed from each queue
ChildNodesConsumed == Len(Tail(msg.nodes)) - Len(ListChild.nodes)
ChildBuffersConsumed == Len(ListOffsets.bufs) - Len(ListChild.bufs)

\* C15: a read_list that succeeds has popped the list's field node, then
\* its validity slot and its offsets slot, before anything of the child
\* subtree: the one child is decoded from the queues that follow the first
\* node and the first two buffer descriptors, and apart from the child the
\* list removed exactly 1 field node and 2 buffer descriptors.
C15_StrictPreorderConsumption ==
    (ReadListDone /\ rd.ok) =>
        /\ Len(msg.bufs) >= 2
        /\ ListChild = read(Tail(msg.nodes), get_child_type(data_type),
                            SubSeq(msg.bufs, 3, Len(msg.bufs)), version)
        /\ NodesConsumed - ChildNodesConsumed = 1
        /\ BuffersConsumed - ChildBuffersConsumed = 2

====
